---- MODULE Spec2Model ----
(***************************************************************************)
(* Model of src/src/e-backport.js: the manual-backport command (lines      *)
(* 14-109) and the goma client provisioning helpers (lines 111-360).       *)
(*                                                                         *)
(* Two independent programs share the file, so there are two              *)
(* specifications over the same variables:                                 *)
(*   Spec          the goma helpers; one action per exported function,     *)
(*                 each call executed to completion (the code is           *)
(*                 synchronous), external outcomes chosen inside the call. *)
(*   SpecBackport  the backport command; one action per step of the        *)
(*                 async handler, sequenced by pc.                         *)
(*                                                                         *)
(* Strings whose characters the code inspects (the PR argument, the login  *)
(* file, label names) are sequences of one-character strings.              *)
(***************************************************************************)
EXTENDS Integers, Sequences, FiniteSets, TLC

VARIABLES
    osPlatform,   \* process.platform
    isArm,        \* getIsArm()
    fs,           \* the files the goma helpers read and write
    now,          \* Date.now(), in ms since the start of the model's clock
    last,         \* what the last call of a goma helper did and returned
    bp            \* the backport command: position, inputs, calls made

vars == <<osPlatform, isArm, fs, now, last, bp>>

(***************************************************************************)
(* Bounds                                                                  *)
(***************************************************************************)
MaxEpochs == 1     \* the clock runs over MaxEpochs freshness windows
MaxLen == 3        \* longest PR argument tried

(***************************************************************************)
(* JavaScript string/number conversions used by the code                   *)
(***************************************************************************)
Digits == <<"0", "1", "2", "3", "4", "5", "6", "7", "8", "9">>

IsDigit(c) == \E i \in 1..10 : Digits[i] = c

DigitVal(c) == (CHOOSE i \in 1..10 : Digits[i] = c) - 1

WhiteSpace == {" ", "\t", "\n"}

RECURSIVE TrimStart(_)
TrimStart(s) ==
    IF s # <<>> /\ Head(s) \in WhiteSpace THEN TrimStart(Tail(s)) ELSE s

RECURSIVE TrimEnd(_)
TrimEnd(s) ==
    IF s # <<>> /\ s[Len(s)] \in WhiteSpace
    THEN TrimEnd(SubSeq(s, 1, Len(s) - 1))
    ELSE s

\* String.prototype.trim
Trim(s) == TrimEnd(TrimStart(s))

RECURSIVE DigitPrefix(_)
DigitPrefix(s) ==
    IF s # <<>> /\ IsDigit(Head(s))
    THEN <<Head(s)>> \o DigitPrefix(Tail(s))
    ELSE <<>>

RECURSIVE DigitsValue(_)
DigitsValue(z) ==
    IF z = <<>> THEN 0
    ELSE 10 * DigitsValue(SubSeq(z, 1, Len(z) - 1)) + DigitVal(z[Len(z)])

\* A JavaScript number: NaN, or an integer (all the code ever produces here).
\* -0 prints as "0" and is the integer 0.
NaN == [nan |-> TRUE, val |-> 0]

Num(n) == [nan |-> FALSE, val |-> n]

\* parseInt(s, 10): skip leading white space, take an optional sign, then the
\* longest run of decimal digits; NaN when that run is empty.
parseInt(s) ==
    LET t == TrimStart(s)
        signed == t # <<>> /\ Head(t) \in {"+", "-"}
        neg == t # <<>> /\ Head(t) = "-"
        z == DigitPrefix(IF signed THEN Tail(t) ELSE t)
    IN  IF z = <<>> THEN NaN
        ELSE Num(IF neg THEN 0 - DigitsValue(z) ELSE DigitsValue(z))

RECURSIVE NatToString(_)
NatToString(n) ==
    IF n < 10 THEN <<Digits[n + 1]>>
    ELSE Append(NatToString(n \div 10), Digits[(n % 10) + 1])

\* `${x}` of a number.  Every integer of the model is below 2^31, far below
\* 10^21 where JavaScript switches to exponent notation.
NumberToString(x) ==
    IF x.nan THEN <<"N", "a", "N">>
    ELSE IF x.val < 0 THEN <<"-">> \o NatToString(0 - x.val)
    ELSE NatToString(x.val)

\* isNaN(x)
isNaN(x) == x.nan

(***************************************************************************)
(* Goma helpers: module-level constants (lines 122-148)                    *)
(***************************************************************************)
OsPlatforms == {"darwin", "linux", "win32", "freebsd"}

\* lines 128-132
gomaPlatform ==
    IF osPlatform = "darwin" /\ isArm THEN "darwin-arm64" ELSE osPlatform

GOMA_PLATFORM_SHAS ==
    ("darwin" :> "bc4bdbe0f687cb6bf1848500704cfa24bc5bee167e768bc6c5c689417c0c44c0") @@
    ("darwin-arm64" :> "29e3e20903c780c717a1fbeb6be78ce40d70e136d1949eec6307ad11aade9447") @@
    ("linux" :> "c105c1a4d06761a4bfcae70789e757f409e4fdf4423b50328c5864bf3d639561") @@
    ("win32" :> "d7578905bb8c0d01249fc1ec6cfb7bfa6a68580ac7f5f5b95b653bce07ba8bf1")

MSFT_GOMA_PLATFORM_SHAS ==
    ("darwin" :> "4738c5447b8a7bafbb6adb9df01b2f571b492ada862bd3e296892faf5b617df1") @@
    ("darwin-arm64" :> "4d2a6d98ecd5214731c089622991334e083f42100bca194a087dde7136a07fc8") @@
    ("linux" :> "dd6285146677b0134fb9b4a0b4f8341c7e57a9b4ef82db158de95f7fed5b72e2") @@
    ("win32" :> "06b6c1d5c924a7415395545ee7a99b926829fc104336830ce6385b7ba67576cd")

isSupportedPlatform == gomaPlatform \in DOMAIN GOMA_PLATFORM_SHAS

\* lines 173-178
ArchiveFilename ==
    ("darwin" :> "goma-mac.tgz") @@
    ("darwin-arm64" :> "goma-mac-arm64.tgz") @@
    ("linux" :> "goma-linux.tgz") @@
    ("win32" :> "goma-win.zip")

\* filename.endsWith('.tgz'), line 216
EndsWithTgz(filename) ==
    filename \in {"goma-mac.tgz", "goma-mac-arm64.tgz", "goma-linux.tgz"}

\* line 157
gomaGnContents == "goma_dir = \"third_party/goma\"\nuse_goma = true"

\* line 235: 1000 * 60 * 60 * 12
FreshnessWindow == 1000 * 60 * 60 * 12

(***************************************************************************)
(* The file system the helpers see                                         *)
(*   thirdParty  the directory third_party exists                          *)
(*   gn          contents of third_party/goma.gn, or NoFile                *)
(*   client      what third_party/goma holds: "none" (no directory), a     *)
(*               partly extracted tree without or with goma_ctl.py, or the *)
(*               archive that was extracted completely                     *)
(*   sha         contents of third_party/goma/.sha, or NoFile              *)
(*   login       third_party/goma/last-known-login                         *)
(*   tmp         the archive at the temporary download path, or NoFile     *)
(***************************************************************************)
NoFile == "<no file>"

NoText == [exists |-> FALSE, text |-> <<>>]

Text(t) == [exists |-> TRUE, text |-> t]

\* What the download server can deliver for this platform.
Archives == {"goma-client", "goma-client-msft", "truncated"}

\* crypto.createHash('SHA256').update(contents).digest('hex'), lines 201-204
SHA256(archive) ==
    CASE archive = "goma-client" -> GOMA_PLATFORM_SHAS[gomaPlatform]
      [] archive = "goma-client-msft" -> MSFT_GOMA_PLATFORM_SHAS[gomaPlatform]
      [] OTHER -> "e3b0c44298fc1c149afbf4c8996fb92427ae41e4649b934ca495991b7852b855"

PartialClients == {"none", "partial", "partial-with-ctl"}

\* fs.existsSync(path.resolve(gomaDir, 'goma_ctl.py')), line 180
HasGomaCtl(f) == f.client \notin {"none", "partial"}

\* the goma directory exists
HasGomaDir(f) == f.client # "none"

\* the client is completely installed (gomacc, goma_auth.py are there)
ClientInstalled(f) == f.client \in Archives

FreshCheckout ==
    [thirdParty |-> FALSE, gn |-> NoFile, client |-> "none", sha |-> NoFile,
     login |-> NoText, tmp |-> NoFile]

\* rimraf.sync(gomaDir), line 189
RimrafGomaDir(f) ==
    [f EXCEPT !.client = "none", !.sha = NoFile, !.login = NoText]

(***************************************************************************)
(* One call in progress: the files, the calls made on the outside world,   *)
(* how the call ended, and what it observed on the way.                    *)
(***************************************************************************)
Start(f) ==
    [fs |-> f, log |-> <<>>, outcome |-> "running", ret |-> "undefined",
     exit |-> 0, hash |-> "", extract |-> "none", query |-> "none",
     authed |-> "none", login |-> "none"]

Running(r) == r.outcome = "running"

Do(r, call) == [r EXCEPT !.log = Append(@, call)]

Return(r, v) == [r EXCEPT !.outcome = "returned", !.ret = v]

\* an exception leaves the function
Throw(r) == [r EXCEPT !.outcome = "threw"]

\* process.exit(code)
Exit(r, code) ==
    [Do(r, "process.exit") EXCEPT !.outcome = "exited", !.exit = code]

\* fatal() of ./utils/logging: prints the message and ends the process with
\* a non-zero exit code.
fatal(r) == Exit(Do(r, "fatal"), 1)

\* the calls of a function continue in its caller
Resume(r) == [r EXCEPT !.outcome = "running", !.ret = "undefined"]

Called(r, call) == \E i \in 1..Len(r.log) : r.log[i] = call

\* run step F on every call of S that is still running
Then(S, F(_)) == UNION {IF Running(r) THEN F(r) ELSE {r} : r \in S}

(***************************************************************************)
(* downloadAndPrepareGoma (lines 150-229)                                  *)
(***************************************************************************)
NoConfig == [present |-> FALSE, gomaSource |-> ""]

Configs ==
    {NoConfig,
     [present |-> TRUE, gomaSource |-> "msft"],
     [present |-> TRUE, gomaSource |-> ""]}

\* lines 153-155
EnsureParentDir(r) ==
    LET r1 == Do(r, "existsSync(third_party)")
    IN  IF r1.fs.thirdParty THEN r1
        ELSE [Do(r1, "mkdirSync(third_party)") EXCEPT !.fs.thirdParty = TRUE]

\* SyncGnFile without the comparison: the file is written on every call
SyncGnFile_Always(r) ==
    LET r1 == Do(r, "existsSync(goma.gn)")
        r2 == IF r1.fs.gn = NoFile THEN r1 ELSE Do(r1, "readFileSync(goma.gn)")
    IN  [Do(r2, "writeFileSync(goma.gn)") EXCEPT !.fs.gn = gomaGnContents]

\* lines 157-161
SyncGnFile(r) ==
    LET r1 == Do(r, "existsSync(goma.gn)")
        r2 == IF r1.fs.gn = NoFile THEN r1 ELSE Do(r1, "readFileSync(goma.gn)")
    IN  IF r2.fs.gn = NoFile \/ r2.fs.gn # gomaGnContents
        THEN [Do(r2, "writeFileSync(goma.gn)") EXCEPT !.fs.gn = gomaGnContents]
        ELSE r2

\* lines 162-165
SelectSha(config) ==
    IF config.present /\ config.gomaSource = "msft"
    THEN MSFT_GOMA_PLATFORM_SHAS[gomaPlatform]
    ELSE GOMA_PLATFORM_SHAS[gomaPlatform]

\* lines 166-170; force: ELECTRON_FORGE_GOMA_REDOWNLOAD has a non-empty value
RecordedShaIsCurrent(f, sha, force) ==
    f.sha # NoFile /\ f.sha = sha /\ ~force

\* lines 180-185: execFileSync throws when the command cannot be run or
\* exits non-zero, and nothing here catches it
StopPrevious(r) ==
    LET r1 == Do(r, "existsSync(goma_ctl.py)")
    IN  IF HasGomaCtl(r1.fs)
        THEN LET r2 == Do(r1, "execFileSync(goma_ctl.py stop)")
             IN  {r2, Throw(r2)}
        ELSE {r1}

\* lines 187-190
CleanUp(r) ==
    LET r1 == [Do(r, "rimraf(goma)") EXCEPT !.fs = RimrafGomaDir(@)]
    IN  {[Do(r1, "rimraf(tmp)") EXCEPT !.fs.tmp = NoFile]}

\* lines 192-200: the status of the download script is not looked at; it
\* leaves an archive at the temporary path, or nothing
Download(r) ==
    LET r1 == Do(r, "spawnSync(download.js)")
    IN  {[r1 EXCEPT !.fs.tmp = a] : a \in Archives \cup {NoFile}}

\* VerifyHash that reports the mismatch and goes on
VerifyHash_NoHalt(r, sha) ==
    LET r1 == Do(r, "readFileSync(tmp)")
    IN  IF r1.fs.tmp = NoFile THEN {Throw(r1)}
        ELSE {[r1 EXCEPT !.hash = SHA256(r1.fs.tmp)]}

\* lines 201-213
VerifyHash(r, sha) ==
    LET r1 == Do(r, "readFileSync(tmp)")
    IN  IF r1.fs.tmp = NoFile THEN {Throw(r1)}
        ELSE LET r2 == [r1 EXCEPT !.hash = SHA256(r1.fs.tmp)]
             IN  IF r2.hash # sha
                 THEN {Exit([Do(r2, "rimraf(tmp)") EXCEPT !.fs.tmp = NoFile], 1)}
                 ELSE {r2}

\* Extract that does not look at the status of tar
Extract_IgnoresStatus(r) ==
    LET done(q) == [q EXCEPT !.extract = "0", !.fs.client = q.fs.tmp]
        part(q, st) ==
            {[q EXCEPT !.extract = st, !.fs.client = c] : c \in PartialClients \ {"none"}}
    IN  IF EndsWithTgz(ArchiveFilename[gomaPlatform])
        THEN LET r1 == Do(r, "spawnSync(tar)")
             IN  {done(r1)} \cup part(r1, "1") \cup part(r1, "null")
        ELSE LET r1 == Do(r, "unzipSync")
             IN  {done(r1)} \cup {Throw(q) : q \in part(r1, "threw")}

\* lines 215-225: tar reports a status, unzipSync throws; a failed
\* extraction may leave part of the tree behind
Extract(r) ==
    LET done(q) == [q EXCEPT !.extract = "0", !.fs.client = q.fs.tmp]
        part(q, st) ==
            {[q EXCEPT !.extract = st, !.fs.client = c] : c \in PartialClients}
    IN  IF EndsWithTgz(ArchiveFilename[gomaPlatform])
        THEN LET r1 == Do(r, "spawnSync(tar)")
             IN  {done(r1)} \cup
                 {fatal(q) : q \in part(r1, "1") \cup part(r1, "null")}
        ELSE LET r1 == Do(r, "unzipSync")
             IN  {done(r1)} \cup {Throw(q) : q \in part(r1, "threw")}

\* lines 226-228
RecordSha(r, sha) ==
    LET r1 == [Do(r, "rimraf(tmp)") EXCEPT !.fs.tmp = NoFile]
    IN  {Return([Do(r1, "writeFileSync(.sha)") EXCEPT !.fs.sha = sha], sha)}

downloadAndPrepareGoma(r, config, force) ==
    IF ~isSupportedPlatform THEN {Return(r, "undefined")}
    ELSE
        LET sha == SelectSha(config)
            r1 == SyncGnFile(EnsureParentDir(r))
            r2 == Do(r1, "existsSync(.sha)")
            r3 == IF r2.fs.sha = NoFile THEN r2 ELSE Do(r2, "readFileSync(.sha)")
            Verify(q) == VerifyHash(q, sha)
            Record(q) == RecordSha(q, sha)
        IN  IF RecordedShaIsCurrent(r3.fs, sha, force) THEN {Return(r3, sha)}
            ELSE Then(Then(Then(Then(Then(StopPrevious(r3),
                     CleanUp), Download), Verify), Extract), Record)

(***************************************************************************)
(* gomaIsAuthenticated, authenticateGoma and the login-time file           *)
(* (lines 231-289)                                                         *)
(***************************************************************************)
\* new Date(parseInt(contents, 10)), or null without the file (lines 276-280)
getLastKnownLoginTime(f) ==
    IF ~f.login.exists THEN [null |-> TRUE, time |-> NaN]
    ELSE [null |-> FALSE, time |-> parseInt(f.login.text)]

\* LoginIsFresh with the window closed at its far end
LoginIsFresh_Inclusive(lastKnownLogin, t) ==
    /\ ~lastKnownLogin.null
    /\ ~lastKnownLogin.time.nan
    /\ t - lastKnownLogin.time.val <= FreshnessWindow

\* line 235: lastKnownLogin && Date.now() - lastKnownLogin.getTime() < 12h;
\* a comparison with NaN is false
LoginIsFresh(lastKnownLogin, t) ==
    /\ ~lastKnownLogin.null
    /\ ~lastKnownLogin.time.nan
    /\ t - lastKnownLogin.time.val < FreshnessWindow

WordChars ==
    {"a", "b", "c", "d", "e", "f", "g", "h", "i", "j", "k", "l", "m",
     "n", "o", "p", "q", "r", "s", "t", "u", "v", "w", "x", "y", "z",
     "A", "B", "C", "D", "E", "F", "G", "H", "I", "J", "K", "L", "M",
     "N", "O", "P", "Q", "R", "S", "T", "U", "V", "W", "X", "Y", "Z", "_"} \cup
    {Digits[i] : i \in 1..10}

IsWord(s) == s # <<>> /\ \A i \in 1..Len(s) : s[i] \in WordChars

LoginAs == <<"L", "o", "g", "i", "n", " ", "a", "s", " ">>

\* /^Login as (\w+\s\w+)$/.test(s), lines 247-248
loggedInPattern(s) ==
    LET n == Len(LoginAs)
    IN  /\ Len(s) > n
        /\ SubSeq(s, 1, n) = LoginAs
        /\ \E k \in (n + 2)..(Len(s) - 1) :
              /\ s[k] \in WhiteSpace
              /\ IsWord(SubSeq(s, n + 1, k - 1))
              /\ IsWord(SubSeq(s, k + 1, Len(s)))

\* what `goma_auth.py info` can print
InfoOutputs ==
    {<<"L", "o", "g", "i", "n", " ", "a", "s", " ", "J", "a", "n", "e", " ", "D", "o", "e", "\n">>,
     <<"L", "o", "g", "i", "n", " ", "a", "s", " ", "j", "a", "n", "e", "\n">>,
     <<"N", "o", "t", " ", "l", "o", "g", "g", "e", "d", " ", "i", "n", "\n">>}

\* lines 237-248: the status query; it cannot run without an installed client
QueryLogin(r) ==
    LET r1 == Do(r, "execFileSync(goma_auth.py info)")
        failed == Return([r1 EXCEPT !.query = "threw"], "false")
        answered(o) ==
            IF loggedInPattern(Trim(o))
            THEN Return([r1 EXCEPT !.query = "match"], "true")
            ELSE Return([r1 EXCEPT !.query = "no match"], "false")
    IN  IF ClientInstalled(r.fs)
        THEN {failed} \cup {answered(o) : o \in InfoOutputs}
        ELSE {failed}

gomaIsAuthenticated(r, t) ==
    IF ~isSupportedPlatform THEN {Return(r, "false")}
    ELSE
        LET r1 == Do(r, "existsSync(last-known-login)")
            r2 == IF r1.fs.login.exists
                  THEN Do(r1, "readFileSync(last-known-login)")
                  ELSE r1
        IN  IF LoginIsFresh(getLastKnownLoginTime(r2.fs), t)
            THEN {Return(r2, "true")}
            ELSE QueryLogin(r2)

\* lines 287-289; writing into a directory that does not exist throws
recordGomaLoginTime(r, t) ==
    LET r1 == Do(r, "writeFileSync(last-known-login)")
    IN  IF HasGomaDir(r1.fs)
        THEN [r1 EXCEPT !.fs.login = Text(NumberToString(Num(t)))]
        ELSE Throw(r1)

\* lines 282-285
clearGomaLoginTime(r) ==
    LET r1 == Do(r, "existsSync(last-known-login)")
    IN  IF ~r1.fs.login.exists THEN Return(r1, "undefined")
        ELSE Return([Do(r1, "unlinkSync(last-known-login)")
                        EXCEPT !.fs.login = NoText], "undefined")

\* Login that records the time before it looks at the status
Login_RecordsFirst(r, t) ==
    LET r1 == Do(r, "spawnSync(goma_auth.py login)")
        ended(st) == recordGomaLoginTime([r1 EXCEPT !.login = st], t)
    IN  {Return(ended("0"), "undefined"), fatal(ended("1")), fatal(ended("null"))}

\* lines 257-272: the interactive login and what follows it
Login(r, t) ==
    LET r1 == Do(r, "spawnSync(goma_auth.py login)")
        ended(st) == [r1 EXCEPT !.login = st]
        recorded == recordGomaLoginTime(ended("0"), t)
    IN  {IF Running(recorded) THEN Return(recorded, "undefined") ELSE recorded,
         fatal(ended("1")),
         fatal(ended("null"))}

\* lines 251-274
authenticateGoma(r, config, force, t) ==
    IF ~isSupportedPlatform THEN {Return(r, "undefined")}
    ELSE
        LET Prepared == {IF q.outcome = "returned" THEN Resume(q) ELSE q :
                            q \in downloadAndPrepareGoma(r, config, force)}
            Check(q) == {[a EXCEPT !.authed = a.ret] : a \in gomaIsAuthenticated(q, t)}
            Rest(a) ==
                IF a.authed = "true" THEN {Return(a, "undefined")}
                ELSE Login(a, t)
            Checked == UNION {IF Running(q) THEN {Resume(a) : a \in Check(q)}
                              ELSE {q} : q \in Prepared}
        IN  Then(Checked, Rest)

(***************************************************************************)
(* ensureGomaStart (lines 291-316)                                         *)
(***************************************************************************)
ensureGomaStart(r) ==
    LET r1 == Do(r, "spawnSync(gomacc port 2)")
        r2 == Do(r1, "execFileSync(goma_ctl.py ensure_start)")
        started == IF HasGomaCtl(r.fs)
                   THEN {Return(r2, "undefined"), Throw(r2)}
                   ELSE {Throw(r2)}
    IN  IF ClientInstalled(r.fs)
        THEN {Return(r1, "undefined")} \cup started
        ELSE started

(***************************************************************************)
(* The goma helpers as a state machine                                     *)
(***************************************************************************)
\* the instants at which anything happens: the start of the clock and the
\* last millisecond inside and the first outside each freshness window
Times == {0} \cup {k * FreshnessWindow - 1 : k \in 1..MaxEpochs}
             \cup {k * FreshnessWindow : k \in 1..MaxEpochs}

\* what a stray editor can leave in the login file
DamagedLoginTexts == {<<>>, <<"x">>}

NoCall ==
    [op |-> "none", config |-> NoConfig, force |-> FALSE, log |-> <<>>,
     outcome |-> "returned", ret |-> "undefined", exit |-> 0, hash |-> "",
     extract |-> "none", query |-> "none", authed |-> "none", login |-> "none"]


\* the backport command before it has fetched a pull request
NoPr == [merge_commit_sha |-> "", labels |-> <<>>]

\* the backport command is not running
BackportIdle ==
    [pc |-> "idle", arg |-> [given |-> FALSE, text |-> <<>>], prNumber |-> NaN,
     user |-> "", pr |-> NoPr, targetBranches |-> <<>>, targetBranch |-> <<>>,
     stdout |-> <<>>, status |-> "none", checkout |-> "none", pull |-> "none",
     delete |-> "none", create |-> "none", pick |-> "none", pickedSha |-> "",
     log |-> <<>>, outcome |-> "running", exit |-> 0]

InitGoma ==
    /\ osPlatform \in OsPlatforms
    /\ isArm \in BOOLEAN
    /\ isArm => osPlatform = "darwin"   \* getIsArm() only matters there
    /\ fs = FreshCheckout
    /\ now = 0
    /\ last = NoCall
    /\ bp = BackportIdle

\* a call of one exported function, run to its end
Call(op, config, force, results) ==
    /\ \E r \in results :
          /\ fs' = r.fs
          /\ last' = [op |-> op, config |-> config, force |-> force,
                      log |-> r.log, outcome |-> r.outcome, ret |-> r.ret,
                      exit |-> r.exit, hash |-> r.hash, extract |-> r.extract,
                      query |-> r.query, authed |-> r.authed, login |-> r.login]
    /\ UNCHANGED <<osPlatform, isArm, now, bp>>

CallDownloadAndPrepareGoma ==
    \E config \in Configs, force \in BOOLEAN :
        Call("downloadAndPrepareGoma", config, force,
             downloadAndPrepareGoma(Start(fs), config, force))

CallGomaIsAuthenticated ==
    \E config \in Configs :
        Call("gomaIsAuthenticated", config, FALSE,
             gomaIsAuthenticated(Start(fs), now))

CallAuthenticateGoma ==
    \E config \in Configs, force \in BOOLEAN :
        Call("authenticateGoma", config, force,
             authenticateGoma(Start(fs), config, force, now))

CallEnsureGomaStart ==
    \E config \in Configs :
        Call("ensureGomaStart", config, FALSE, ensureGomaStart(Start(fs)))

CallClearGomaLoginTime ==
    Call("clearGomaLoginTime", NoConfig, FALSE, {clearGomaLoginTime(Start(fs))})

CallRecordGomaLoginTime ==
    LET r == recordGomaLoginTime(Start(fs), now)
    IN  Call("recordGomaLoginTime", NoConfig, FALSE,
             {IF Running(r) THEN Return(r, "undefined") ELSE r})

\* time passes between calls
Tick ==
    /\ \E t \in Times : t > now /\ now' = t
    /\ last' = NoCall
    /\ UNCHANGED <<osPlatform, isArm, fs, bp>>

\* somebody edits or deletes goma.gn between calls (the reason line 158
\* compares the contents)
GnFileEdited ==
    /\ fs.thirdParty
    /\ \E c \in {NoFile, "use_goma = false"} :
          c # fs.gn /\ fs' = [fs EXCEPT !.gn = c]
    /\ last' = NoCall
    /\ UNCHANGED <<osPlatform, isArm, now, bp>>

\* the login file holds something that is not a time stamp
LoginFileDamaged ==
    /\ HasGomaDir(fs)
    /\ \E t \in DamagedLoginTexts : fs' = [fs EXCEPT !.login = Text(t)]
    /\ last' = NoCall
    /\ UNCHANGED <<osPlatform, isArm, now, bp>>

NextGoma ==
    \/ CallDownloadAndPrepareGoma
    \/ CallGomaIsAuthenticated
    \/ CallAuthenticateGoma
    \/ CallEnsureGomaStart
    \/ CallClearGomaLoginTime
    \/ CallRecordGomaLoginTime
    \/ Tick
    \/ GnFileEdited
    \/ LoginFileDamaged

Spec == InitGoma /\ [][NextGoma]_vars

(***************************************************************************)
(* The backport command (lines 14-109)                                     *)
(***************************************************************************)
\* characters the PR argument is built from
ArgChars == {"0", "1", "2", "-", "+", "a", " "}

RECURSIVE StringsUpTo(_)
StringsUpTo(n) ==
    IF n = 0 THEN {<<>>}
    ELSE LET S == StringsUpTo(n - 1)
         IN  S \cup {Append(t, c) : t \in {u \in S : Len(u) = n - 1}, c \in ArgChars}

\* process.argv: the argument is absent, or one of the strings
Arguments ==
    {[given |-> FALSE, text |-> <<>>]} \cup
    {[given |-> TRUE, text |-> t] : t \in StringsUpTo(MaxLen)}

\* String(undefined), which is what parseInt sees without an argument
Undefined == <<"u", "n", "d", "e", "f", "i", "n", "e", "d">>

\* line 19: isNaN(prNumber) || `${prNumber}` !== prNumberStr
RejectsPrNumber(arg) ==
    LET prNumber == parseInt(IF arg.given THEN arg.text ELSE Undefined)
    IN  isNaN(prNumber) \/ ~arg.given \/ NumberToString(prNumber) # arg.text

NeedsManualBp == <<"n", "e", "e", "d", "s", "-", "m", "a", "n", "u", "a", "l", "-", "b", "p", "/">>

\* label.name.startsWith('needs-manual-bp/'), line 39
StartsWith(name, prefix) ==
    Len(name) >= Len(prefix) /\ SubSeq(name, 1, Len(prefix)) = prefix

\* label.name.substring(16), line 40
Substring16(name) == SubSeq(name, 17, Len(name))

RECURSIVE FilterLabels(_)
FilterLabels(labels) ==
    IF labels = <<>> THEN <<>>
    ELSE IF StartsWith(Head(labels), NeedsManualBp)
         THEN <<Substring16(Head(labels))>> \o FilterLabels(Tail(labels))
         ELSE FilterLabels(Tail(labels))

\* lines 38-40
TargetBranches(pr) == FilterLabels(pr.labels)

\* what pulls.get can answer
PullRequests ==
    {[merge_commit_sha |-> "f3a9c1e", labels |-> <<<<"n", "e", "e", "d", "s", "-", "m", "a", "n", "u", "a", "l", "-", "b", "p", "/", "9", "-", "x", "-", "y">>,
                                                   <<"s", "e", "m", "v", "e", "r", "/", "p", "a", "t", "c", "h">>,
                                                   <<"n", "e", "e", "d", "s", "-", "m", "a", "n", "u", "a", "l", "-", "b", "p", "/", "8", "-", "x", "-", "y">>>>],
     [merge_commit_sha |-> "f3a9c1e", labels |-> <<<<"s", "e", "m", "v", "e", "r", "/", "p", "a", "t", "c", "h">>>>],
     [merge_commit_sha |-> "f3a9c1e", labels |-> <<>>],
     [merge_commit_sha |-> "", labels |-> <<<<"n", "e", "e", "d", "s", "-", "m", "a", "n", "u", "a", "l", "-", "b", "p", "/", "9", "-", "x", "-", "y">>>>]}

\* what `git status --porcelain` prints: nothing for a clean tree, else one
\* line "XY path" per changed file
PorcelainLines == {<<" ", "M", " ", "a", "\n">>, <<"?", "?", " ", "b", "\n">>}

PorcelainOutputs ==
    {<<>>} \cup PorcelainLines \cup {a \o b : a, b \in PorcelainLines}

ExitStatuses == {"0", "1", "null"}

\* WorkingTreeNotClean that trusts the exit status alone
WorkingTreeNotClean_StatusOnly(status, stdout) ==
    status # "0"

\* line 61
WorkingTreeNotClean(status, stdout) ==
    status # "0" \/ Len(Trim(stdout)) # 0

InitBackport ==
    /\ osPlatform = "linux"
    /\ isArm = FALSE
    /\ fs = FreshCheckout
    /\ now = 0
    /\ last = NoCall
    /\ \E arg \in Arguments : bp = [BackportIdle EXCEPT !.pc = "validate", !.arg = arg]

At(pc) == bp.pc = pc /\ Running(bp)

Goto(b, pc) == [b EXCEPT !.pc = pc]

\* fatal(...); return;
Abort(b) == Goto(fatal(b), "end")

\* a rejected promise ends the async handler
Reject(b) == Goto(Throw(b), "end")

BackportStep(b) == bp' = b /\ UNCHANGED <<osPlatform, isArm, fs, now, last>>

\* lines 18-22
ValidateResult(b) ==
    IF RejectsPrNumber(b.arg) THEN Abort(b)
    ELSE Goto([b EXCEPT !.prNumber = parseInt(b.arg.text)], "authenticate")

Validate == At("validate") /\ BackportStep(ValidateResult(bp))

\* lines 24-26: the token comes from the environment or from the auth flow,
\* which can fail
Authenticate ==
    /\ At("authenticate")
    /\ \E fromEnv \in BOOLEAN, ok \in BOOLEAN :
          BackportStep(
            IF fromEnv THEN Goto(bp, "getUser")
            ELSE LET b == Do(bp, "getGitHubAuthToken")
                 IN  IF ok THEN Goto(b, "getUser") ELSE Reject(b))

\* line 27
GetUser ==
    /\ At("getUser")
    /\ \E ok \in BOOLEAN :
          LET b == Do(bp, "users.getAuthenticated")
          IN  BackportStep(IF ok THEN Goto([b EXCEPT !.user = "octocat"], "getPr")
                           ELSE Reject(b))

\* lines 33-36
MergeShaResult(b) ==
    IF b.pr.merge_commit_sha = "" THEN Abort(b) ELSE Goto(b, "targets")

\* lines 28-36
GetPr ==
    /\ At("getPr")
    /\ \/ BackportStep(Reject(Do(bp, "pulls.get")))
       \/ \E pr \in PullRequests :
             BackportStep(MergeShaResult([Do(bp, "pulls.get") EXCEPT !.pr = pr]))

\* lines 38-44
TargetsResult(b) ==
    LET targets == TargetBranches(b.pr)
    IN  IF Len(targets) = 0 THEN Abort(b)
        ELSE Goto([b EXCEPT !.targetBranches = targets], "select")

DeriveTargets == At("targets") /\ BackportStep(TargetsResult(bp))

\* lines 46-53
SelectBranch ==
    /\ At("select")
    /\ \E i \in 1..Len(bp.targetBranches) :
          BackportStep(Goto([Do(bp, "inquirer.prompt")
                               EXCEPT !.targetBranch = bp.targetBranches[i]],
                            "status"))

\* lines 60-66
PreflightResult(b) ==
    IF WorkingTreeNotClean(b.status, b.stdout) THEN Abort(b)
    ELSE Goto(b, "checkout")

Preflight ==
    /\ At("status")
    /\ \E st \in ExitStatuses, out \in PorcelainOutputs :
          BackportStep(PreflightResult([Do(bp, "git status")
                              EXCEPT !.status = st, !.stdout = out]))

\* CheckoutResult without the fatal return
CheckoutResult_NoAbort(b) == Goto(b, "pull")

\* lines 68-72
CheckoutResult(b) ==
    IF b.checkout # "0" THEN Abort(b) ELSE Goto(b, "pull")

Checkout ==
    /\ At("checkout")
    /\ \E st \in ExitStatuses :
          BackportStep(CheckoutResult([Do(bp, "git checkout") EXCEPT !.checkout = st]))

\* lines 74-78
PullResult(b) ==
    IF b.pull # "0" THEN Abort(b) ELSE Goto(b, "delete")

Pull ==
    /\ At("pull")
    /\ \E st \in ExitStatuses :
          BackportStep(PullResult([Do(bp, "git pull") EXCEPT !.pull = st]))

\* line 81: the result is not looked at
DeleteResult(b) == Goto(b, "create")

DeleteOldBranch ==
    /\ At("delete")
    /\ \E st \in ExitStatuses :
          BackportStep(DeleteResult([Do(bp, "git branch -D") EXCEPT !.delete = st]))

\* lines 82-91
CreateResult(b) ==
    IF b.create # "0" THEN Abort(b) ELSE Goto(b, "pick")

CreateBranch ==
    /\ At("create")
    /\ \E st \in ExitStatuses :
          BackportStep(CreateResult([Do(bp, "git checkout -b") EXCEPT !.create = st]))

\* lines 93-95: the result is not looked at
PickResult(b) == Goto(b, "report")

CherryPick ==
    /\ At("pick")
    /\ \E st \in ExitStatuses :
          BackportStep(PickResult([Do(bp, "git cherry-pick")
                          EXCEPT !.pick = st, !.pickedSha = bp.pr.merge_commit_sha]))

\* lines 97-106
Report ==
    /\ At("report")
    /\ BackportStep(Goto(Return(Do(bp, "console.info"), "undefined"), "end"))

NextBackport ==
    \/ Validate
    \/ Authenticate
    \/ GetUser
    \/ GetPr
    \/ DeriveTargets
    \/ SelectBranch
    \/ Preflight
    \/ Checkout
    \/ Pull
    \/ DeleteOldBranch
    \/ CreateBranch
    \/ CherryPick
    \/ Report

SpecBackport == InitBackport /\ [][NextBackport]_vars

(***************************************************************************)
(* Properties of the goma helpers (checked under Spec)                     *)
(***************************************************************************)
PrepareOps == {"downloadAndPrepareGoma", "authenticateGoma"}

ExtractCalls == {"spawnSync(tar)", "unzipSync"}

InstallCalls ==
    {"execFileSync(goma_ctl.py stop)", "rimraf(goma)", "rimraf(tmp)",
     "spawnSync(download.js)", "readFileSync(tmp)"} \cup ExtractCalls

CalledAny(r, calls) == \E c \in calls : Called(r, c)

\* C1: when the archive that was downloaded hashes to something other than
\* the expected checksum, the process exits non-zero, the temporary archive
\* is gone, nothing was extracted and the .sha file was not written.
C1_HashMismatchHalts ==
    (/\ last.op \in PrepareOps
     /\ isSupportedPlatform
     /\ last.hash # ""
     /\ last.hash # SelectSha(last.config))
    => /\ last.outcome = "exited"
       /\ last.exit # 0
       /\ fs.tmp = NoFile
       /\ ~CalledAny(last, ExtractCalls)
       /\ fs.client = "none"
       /\ ~Called(last, "writeFileSync(.sha)")
       /\ fs.sha = NoFile

C1_Witness ==
    /\ last.op = "downloadAndPrepareGoma"
    /\ isSupportedPlatform
    /\ last.hash \notin {"", SelectSha(last.config)}
    /\ Called(last, "spawnSync(download.js)")
    /\ last.outcome = "exited"

\* C2: on an unsupported platform each of the four provisioning functions
\* returns undefined or false and calls nothing outside the process.
C2_UnsupportedIsNoOp ==
    (/\ ~isSupportedPlatform
     /\ last.op \in {"downloadAndPrepareGoma", "gomaIsAuthenticated",
                     "authenticateGoma", "ensureGomaStart"})
    => /\ last.outcome = "returned"
       /\ last.ret \in {"undefined", "false"}
       /\ last.log = <<>>

\* C5: a call of downloadAndPrepareGoma on a supported platform that finds
\* the recorded checksum equal to the expected one, with no forced
\* re-download, stops nothing, removes nothing, downloads and extracts
\* nothing and returns the expected checksum; any other call attempts the
\* download.
C5_ChecksumDecidesDownload ==
    [][(last'.op = "downloadAndPrepareGoma" /\ isSupportedPlatform)
       => LET sha == SelectSha(last'.config)
          IN  IF fs.sha = sha /\ ~last'.force
              THEN /\ ~CalledAny(last', InstallCalls)
                   /\ last'.outcome = "returned"
                   /\ last'.ret = sha
              ELSE Called(last', "spawnSync(download.js)")]_vars

\* C6: gomaIsAuthenticated answers true without the status query when the
\* recorded login time is newer than now - 12h; with an older, unparsable or
\* absent time it runs the query, and a query that fails gives false.
C6_FreshLoginSkipsQuery ==
    (last.op = "gomaIsAuthenticated" /\ isSupportedPlatform)
    => LET stamp == IF fs.login.exists THEN parseInt(fs.login.text) ELSE NaN
           newer == ~stamp.nan /\ stamp.val > now - FreshnessWindow
           asked == Called(last, "execFileSync(goma_auth.py info)")
       IN  /\ last.outcome = "returned"
           /\ newer => (last.ret = "true" /\ ~asked)
           /\ ~newer => asked
           /\ (asked /\ last.query = "threw") => last.ret = "false"

C6_Witness ==
    /\ last.op = "gomaIsAuthenticated"
    /\ isSupportedPlatform
    /\ fs.login.exists
    /\ ~parseInt(fs.login.text).nan
    /\ now - parseInt(fs.login.text).val = FreshnessWindow - 1
    /\ last.ret = "true"
    /\ last.query = "none"

PrepareCalls ==
    {"existsSync(third_party)", "mkdirSync(third_party)", "existsSync(goma.gn)",
     "readFileSync(goma.gn)", "writeFileSync(goma.gn)", "existsSync(.sha)",
     "readFileSync(.sha)", "existsSync(goma_ctl.py)", "writeFileSync(.sha)"}
    \cup InstallCalls

AuthCalls ==
    {"existsSync(last-known-login)", "readFileSync(last-known-login)",
     "execFileSync(goma_auth.py info)", "spawnSync(goma_auth.py login)",
     "writeFileSync(last-known-login)"}

\* C7: authenticateGoma prepares the client before it checks the login, runs
\* the interactive login only when that check said false, ends the process
\* without writing the login time when the login status is not 0, and after
\* a status of 0 has recorded a time with which gomaIsAuthenticated, called
\* right away, answers true without the status query.
C7_AuthenticateGoma ==
    (last.op = "authenticateGoma" /\ isSupportedPlatform)
    => /\ last.log # <<>> /\ last.log[1] \in PrepareCalls
       /\ \A i, j \in 1..Len(last.log) :
             (last.log[i] \in PrepareCalls /\ last.log[j] \in AuthCalls) => i < j
       /\ Called(last, "spawnSync(goma_auth.py login)") => last.authed = "false"
       /\ last.login \in {"1", "null"}
             => /\ last.outcome = "exited"
                /\ last.exit # 0
                /\ ~Called(last, "writeFileSync(last-known-login)")
       /\ last.login = "0"
             => /\ last.outcome = "returned"
                /\ fs.login = Text(NumberToString(Num(now)))
                /\ \A r \in gomaIsAuthenticated(Start(fs), now) :
                      /\ r.ret = "true"
                      /\ ~Called(r, "execFileSync(goma_auth.py info)")

C7_Witness ==
    /\ last.op = "authenticateGoma"
    /\ isSupportedPlatform
    /\ last.authed = "false"
    /\ last.login = "0"
    /\ fs.login.exists

\* C9: a call of downloadAndPrepareGoma leaves goma.gn with the desired
\* contents and writes it exactly when it was missing or different before,
\* so a second call on an untouched file writes nothing.
C9_GnWriteIdempotent ==
    [][(last'.op \in PrepareOps /\ isSupportedPlatform)
       => /\ fs'.gn = gomaGnContents
          /\ Called(last', "writeFileSync(goma.gn)") <=> fs.gn # gomaGnContents]_vars

C9_Witness ==
    /\ last.op = "downloadAndPrepareGoma"
    /\ isSupportedPlatform
    /\ Called(last, "readFileSync(goma.gn)")
    /\ ~Called(last, "writeFileSync(goma.gn)")

\* C10: a failed extraction ends the call (fatal for tar, an exception for
\* unzip) before the checksum is recorded, and a recorded checksum is always
\* that of the archive that was extracted completely.
C10_ShaOnlyAfterExtraction ==
    /\ (last.op \in PrepareOps /\ last.extract \in {"1", "null"})
          => /\ last.outcome = "exited"
             /\ last.exit # 0
             /\ Called(last, "fatal")
    /\ (last.op \in PrepareOps /\ last.extract \notin {"none", "0"})
          => /\ last.outcome \in {"exited", "threw"}
             /\ ~Called(last, "writeFileSync(.sha)")
             /\ fs.sha = NoFile
    /\ fs.sha # NoFile => (ClientInstalled(fs) /\ SHA256(fs.client) = fs.sha)

C10_Witness ==
    /\ last.op = "downloadAndPrepareGoma"
    /\ last.extract = "1"
    /\ last.hash = SelectSha(last.config)
    /\ fs.client = "partial-with-ctl"
    /\ fs.sha = NoFile

(***************************************************************************)
(* Properties of the backport command (checked under SpecBackport)         *)
(***************************************************************************)
\* the decimal representation of a non-negative integer: digits only, and
\* no leading zero unless the number is 0
IsNonNegativeDecimal(arg) ==
    /\ arg.given
    /\ arg.text # <<>>
    /\ \A i \in 1..Len(arg.text) : IsDigit(arg.text[i])
    /\ Len(arg.text) > 1 => arg.text[1] # "0"

Validated == bp.pc # "validate"

Accepted == ~bp.prNumber.nan

\* C3: the validator accepts the argument exactly when it is the decimal
\* representation of a non-negative integer; anything else ends in the fatal
\* error with no other call made.
C3_ValidatorAcceptsNonNegativeDecimals ==
    Validated
    => /\ Accepted <=> IsNonNegativeDecimal(bp.arg)
       /\ ~Accepted => /\ bp.log = <<"fatal", "process.exit">>
                       /\ bp.outcome = "exited"
                       /\ bp.pc = "end"

GitChanges ==
    {"git checkout", "git pull", "git branch -D", "git checkout -b",
     "git cherry-pick"}

\* C4: when git status --porcelain printed anything, the command has ended
\* in the fatal error and has run no checkout, pull, branch or cherry-pick.
C4_DirtyTreeUntouched ==
    (Called(bp, "git status") /\ bp.stdout # <<>>)
    => /\ ~CalledAny(bp, GitChanges)
       /\ bp.pc = "end"
       /\ bp.outcome = "exited"
       /\ bp.exit # 0

C4_Witness ==
    /\ Called(bp, "git status")
    /\ bp.status = "0"
    /\ bp.stdout # <<>>
    /\ bp.pc = "end"

\* the calls of a complete run, in order (the token may come from the
\* environment instead of getGitHubAuthToken)
FullFlow ==
    <<"users.getAuthenticated", "pulls.get", "inquirer.prompt", "git status",
      "git checkout", "git pull", "git branch -D", "git checkout -b",
      "git cherry-pick", "console.info">>

IsPrefix(s, t) == Len(s) <= Len(t) /\ SubSeq(t, 1, Len(s)) = s

\* the log without the fatal ending
RECURSIVE StepsOf(_)
StepsOf(log) ==
    IF log = <<>> THEN <<>>
    ELSE IF Head(log) \in {"fatal", "process.exit"} THEN StepsOf(Tail(log))
    ELSE <<Head(log)>> \o StepsOf(Tail(log))

\* the command has ended in a fatal error right after the given call
HaltedAfter(call) ==
    LET steps == StepsOf(bp.log)
    IN  /\ bp.pc = "end"
        /\ bp.outcome = "exited"
        /\ bp.exit # 0
        /\ steps[Len(steps)] = call
        /\ SubSeq(bp.log, Len(bp.log) - 1, Len(bp.log)) = <<"fatal", "process.exit">>

Failed(st) == st \in {"1", "null"}

\* C8: the calls made are an initial part of the one linear sequence, each
\* made once; a missing merge commit, no needs-manual-bp label, or a failed
\* checkout, pull or branch creation ends the command right there, so the
\* cherry-pick and the report only follow successes; a failed branch
\* deletion or cherry-pick does not end it.
C8_LinearFlowHaltsOnFatal ==
    LET steps == StepsOf(bp.log)
    IN  /\ \/ IsPrefix(steps, FullFlow)
           \/ IsPrefix(steps, <<"getGitHubAuthToken">> \o FullFlow)
        /\ (Called(bp, "pulls.get") /\ bp.outcome # "threw"
              /\ bp.pr.merge_commit_sha = "")
              => HaltedAfter("pulls.get")
        /\ (Called(bp, "pulls.get") /\ bp.outcome # "threw"
              /\ bp.pr.merge_commit_sha # "" /\ Len(TargetBranches(bp.pr)) = 0)
              => (bp.pc = "targets" \/ HaltedAfter("pulls.get"))
        /\ Failed(bp.checkout) => HaltedAfter("git checkout")
        /\ Failed(bp.pull) => HaltedAfter("git pull")
        /\ Failed(bp.create) => HaltedAfter("git checkout -b")
        /\ Called(bp, "git cherry-pick")
              => /\ bp.pr.merge_commit_sha # ""
                 /\ bp.pickedSha = bp.pr.merge_commit_sha
                 /\ bp.targetBranch \in {bp.targetBranches[i] :
                                            i \in 1..Len(bp.targetBranches)}
                 /\ bp.checkout = "0" /\ bp.pull = "0" /\ bp.create = "0"
        /\ Called(bp, "console.info")
              => (Called(bp, "git cherry-pick") /\ bp.outcome = "returned")
        /\ Failed(bp.delete)
              => (bp.pc = "create" \/ Called(bp, "git checkout -b"))
        /\ Failed(bp.pick)
              => (bp.pc = "report" \/ Called(bp, "console.info"))

C8_Witness ==
    /\ bp.pc = "end"
    /\ bp.outcome = "returned"
    /\ Failed(bp.delete)
    /\ Failed(bp.pick)
    /\ Called(bp, "console.info")

====
